---- MODULE Spec2Model ----
(***************************************************************************)
(* A model of alot's command engine (alot/commands.py): the commands that  *)
(* open, close and focus buffers, the tag commands with their view         *)
(* reconciliation, FlushCommand with its retry timer, and ExternalCommand  *)
(* with its worker thread and signalling pipe.                             *)
(*                                                                         *)
(* commands.py drives three collaborators whose code is not part of        *)
(* commands.py: the session (ui.buffers, ui.current_buffer, buffer_open,   *)
(* buffer_close, buffer_focus, apply_command, notify), the store (dbman,   *)
(* the thread handles) and the buffers' view state.  They are modelled     *)
(* from the specification's description of their contracts (sections 4.2,  *)
(* 4.4, 4.5 and 6).                                                        *)
(***************************************************************************)
EXTENDS Integers, Sequences, FiniteSets, TLC

\* ------------------------------------------------------------ bounds
\* Buffer objects created in one session.
MaxBufs == 2
\* |offset| of a BufferFocusCommand.
MaxOffset == 3
\* Threads in the store; thread t holds t messages.
MaxThreads == 2
\* Commit attempts the store may reject with LockedError in one session.
MaxLocked == 2
\* FlushCommand objects created in one session.
MaxFlush == 2
\* ExternalCommand objects created in one session.
MaxTasks == 1

NoBuf == 0
NoThread == 0
\* The email an Envelope buffer was opened with; x > 0 is the editor output of
\* the ExternalCommand x.
NoEmail == 0

BufIds == 1..MaxBufs
Threads == 1..MaxThreads
FlushIds == 1..MaxFlush
TaskIds == 1..MaxTasks
Tags == {"inbox", "unread"}
Queries == {"tag:inbox", "tag:unread"}
Offsets == (0 - MaxOffset)..MaxOffset

VARIABLES
    buffers,         \* ui.buffers: the open buffers, in opening order
    current_buffer,  \* ui.current_buffer, NoBuf for None
    previous,        \* the session's one-level back-pointer
    buf,             \* the buffer objects ever created, by identity
    nbuf,            \* buffer objects created so far
    tags,            \* what each thread handle's get_tags() returns
    db,              \* dbman: the index, the pending writes, its lock
    flush,           \* the FlushCommand objects, by identity
    nflush,          \* FlushCommand objects created so far
    tasks,           \* the ExternalCommand objects, by identity
    ntask,           \* ExternalCommand objects created so far
    screen,          \* ui.mainloop.screen: "started" or "stopped"
    err,             \* the exception that left apply and ended the loop
    last,            \* the handler that ran last: name, arguments, notifications
    toggled          \* the last toggles of one tag of one thread, and the tags before

vars == <<buffers, current_buffer, previous, buf, nbuf, tags, db, flush,
          nflush, tasks, ntask, screen, err, last, toggled>>

\* ------------------------------------------------------------ helpers
RECURSIVE SeqSum(_)
SeqSum(s) == IF s = <<>> THEN 0 ELSE Head(s) + SeqSum(Tail(s))

InSeq(x, s) == \E i \in 1..Len(s) : s[i] = x

\* list.index(x): the first position of x, 0-based as in Python.
IndexOf(x, s) == (CHOOSE i \in 1..Len(s) : s[i] = x /\ \A j \in 1..(i - 1) : s[j] # x) - 1

\* list.remove(x): the list without its first x.
RemoveFirst(x, s) ==
    LET i == IndexOf(x, s) + 1
    IN [j \in 1..(Len(s) - 1) |-> IF j < i THEN s[j] ELSE s[j + 1]]

RemoveAt(i, s) == [j \in 1..(Len(s) - 1) |-> IF j < i THEN s[j] ELSE s[j + 1]]

FilterSeq(s, P(_)) ==
    LET F[i \in 0..Len(s)] ==
            IF i = 0 THEN <<>>
            ELSE IF P(s[i]) THEN Append(F[i - 1], s[i]) ELSE F[i - 1]
    IN F[Len(s)]

Min(a, b) == IF a < b THEN a ELSE b

\* ------------------------------------------------------------ store
\* The tag a query "tag:x" names.
QueryTag(q) == IF q = "tag:inbox" THEN "inbox" ELSE "unread"

total_messages(t) == t

\* dbman.count_messages("(q) AND thread:t") against the index.
count_thread(index, q, t) == IF QueryTag(q) \in index[t] THEN total_messages(t) ELSE 0

\* The threads a query returns, in the store's order.
query_threads(index, q) ==
    LET match(t) == QueryTag(q) \in index[t]
    IN FilterSeq([i \in 1..MaxThreads |-> i], match)

\* dbman.count_messages(q).
count_messages(index, q) ==
    SeqSum([i \in 1..Len(query_threads(index, q)) |->
               total_messages(query_threads(index, q)[i])])

NoPending == [t \in Threads |-> [g \in Tags |-> "none"]]

\* A successful commit: the pending writes reach the index.
Commit(d) ==
    [d EXCEPT !.index = [t \in Threads |->
                            (d.index[t] \cup {g \in Tags : d.pending[t][g] = "add"})
                                \ {g \in Tags : d.pending[t][g] = "remove"}],
              !.pending = NoPending]

\* thread.add_tags / thread.remove_tags / thread.set_tags on a writable store:
\* the write is queued, the handle's own tag set follows it.
QueueWrite(d, t, add, remove) ==
    [d EXCEPT !.pending[t] = [g \in Tags |->
        IF g \in add THEN "add" ELSE IF g \in remove THEN "remove" ELSE @[g]]]

\* ------------------------------------------------------------ session
\* The session's registry as one value: ui.buffers, ui.current_buffer and the
\* back-pointer.
U == [buffers |-> buffers, cur |-> current_buffer, prev |-> previous]

\* ui.buffer_focus(b): sets current to an existing member, no-op otherwise.
buffer_focus(u, b) ==
    IF InSeq(b, u.buffers)
    THEN [u EXCEPT !.cur = b, !.prev = IF b = u.cur THEN u.prev ELSE u.cur]
    ELSE u

\* ui.buffer_open(b): appends, becomes current.
buffer_open(u, b) == buffer_focus([u EXCEPT !.buffers = Append(@, b)], b)

\* ui.buffer_close(b): removes; if it was current, focus moves to the
\* previously focused buffer, or to the last member left when that one is gone.
buffer_close(u, b) ==
    IF ~InSeq(b, u.buffers) THEN u
    ELSE LET rest == RemoveFirst(b, u.buffers)
         IN IF u.cur # b
            THEN [u EXCEPT !.buffers = rest,
                           !.prev = IF u.prev = b THEN NoBuf ELSE u.prev]
            ELSE [buffers |-> rest,
                  cur |-> IF InSeq(u.prev, rest) THEN u.prev
                          ELSE IF rest = <<>> THEN NoBuf ELSE rest[Len(rest)],
                  prev |-> NoBuf]

\* ui.get_buffers_of_type(t): the open buffers of that type, in order.
get_buffers_of_type(bufs, B, type) ==
    LET isType(b) == B[b].type = type
    IN FilterSeq(bufs, isType)

\* ------------------------------------------------------------ buffers
FreeBuffer ==
    [type |-> "none", querystring |-> "", threadlist |-> <<>>,
     result_count |-> 0, sel |-> 0, thread |-> NoThread, email |-> NoEmail]

\* buffer.SearchBuffer(ui, query): built from the index as it is now.
SearchBuffer(index, q) ==
    [type |-> "search", querystring |-> q,
     threadlist |-> query_threads(index, q),
     result_count |-> count_messages(index, q),
     sel |-> IF query_threads(index, q) = <<>> THEN 0 ELSE 1,
     thread |-> NoThread, email |-> NoEmail]

SingleThreadBuffer(t) == [FreeBuffer EXCEPT !.type = "thread", !.thread = t]
EnvelopeBuffer == [FreeBuffer EXCEPT !.type = "envelope"]
BufferListBuffer == [FreeBuffer EXCEPT !.type = "bufferlist"]
TagListBuffer == [FreeBuffer EXCEPT !.type = "taglist"]

\* cb.get_selected_thread() of a Search buffer; NoThread when nothing is selected.
get_selected_thread(b) ==
    IF b.type = "search" /\ b.sel >= 1 /\ b.sel <= Len(b.threadlist)
    THEN b.threadlist[b.sel] ELSE NoThread

\* Whether the current buffer is a Search buffer with a selected row.
HasSelection ==
    /\ current_buffer # NoBuf
    /\ get_selected_thread(buf[current_buffer]) # NoThread

\* ------------------------------------------------------------ history
NoToggle == [n |-> 0, t |-> NoThread, g |-> "", before |-> {}]

NoArgs ==
    [k |-> 0, b |-> NoBuf, t |-> NoThread, g |-> "", q |-> "", force |-> FALSE,
     tagset |-> {}, cancelled |-> {}]

\* The record of a handler run: its name, its arguments, the notifications it
\* issued and the thread whose row it rebuilt.
Ran(op, args, notes) ==
    [op |-> op, args |-> args, notes |-> notes, rebuilt |-> NoThread]

\* ------------------------------------------------------------ FlushCommand
NewFlush == [st |-> "new", applies |-> 0, attempts |-> 0, locked |-> 0, notes |-> 0, alarms |-> 0]

\* FlushCommand.apply that sets no alarm on LockedError.
FlushCommand_apply_no_alarm(d, fl, f) ==
    IF d.lockLeft > 0
    THEN [db |-> [d EXCEPT !.lockLeft = @ - 1],
          flush |-> [fl EXCEPT ![f] = [st |-> "retry", applies |-> @.applies + 1,
                                       attempts |-> @.attempts + 1,
                                       locked |-> @.locked + 1,
                                       notes |-> @.notes + 1,
                                       alarms |-> @.alarms]],
          notes |-> <<"index locked">>]
    ELSE [db |-> Commit(d),
          flush |-> [fl EXCEPT ![f] = [@ EXCEPT !.st = "committed",
                                                !.applies = @ + 1,
                                                !.attempts = @ + 1]],
          notes |-> <<>>]

\* FlushCommand.apply that sets its alarm twice on LockedError.
FlushCommand_apply_two_alarms(d, fl, f) ==
    IF d.lockLeft > 0
    THEN [db |-> [d EXCEPT !.lockLeft = @ - 1],
          flush |-> [fl EXCEPT ![f] = [st |-> "retry", applies |-> @.applies + 1,
                                       attempts |-> @.attempts + 1,
                                       locked |-> @.locked + 1,
                                       notes |-> @.notes + 1,
                                       alarms |-> @.alarms + 2]],
          notes |-> <<"index locked">>]
    ELSE [db |-> Commit(d),
          flush |-> [fl EXCEPT ![f] = [@ EXCEPT !.st = "committed",
                                                !.applies = @ + 1,
                                                !.attempts = @ + 1]],
          notes |-> <<>>]

\* FlushCommand.apply that sets its alarm after a successful commit as well.
FlushCommand_apply_alarm_on_success(d, fl, f) ==
    IF d.lockLeft > 0
    THEN [db |-> [d EXCEPT !.lockLeft = @ - 1],
          flush |-> [fl EXCEPT ![f] = [st |-> "retry", applies |-> @.applies + 1,
                                       attempts |-> @.attempts + 1,
                                       locked |-> @.locked + 1,
                                       notes |-> @.notes + 1,
                                       alarms |-> @.alarms + 1]],
          notes |-> <<"index locked">>]
    ELSE [db |-> Commit(d),
          flush |-> [fl EXCEPT ![f] = [@ EXCEPT !.st = "committed",
                                                !.applies = @ + 1,
                                                !.attempts = @ + 1,
                                                !.alarms = @ + 1]],
          notes |-> <<>>]

\* FlushCommand.apply on the object f: one commit attempt; on LockedError an
\* alarm that applies f again, and a notification.
FlushCommand_apply(d, fl, f) ==
    IF d.lockLeft > 0
    THEN [db |-> [d EXCEPT !.lockLeft = @ - 1],
          flush |-> [fl EXCEPT ![f] = [st |-> "retry", applies |-> @.applies + 1,
                                       attempts |-> @.attempts + 1,
                                       locked |-> @.locked + 1,
                                       notes |-> @.notes + 1,
                                       alarms |-> @.alarms + 1]],
          notes |-> <<"index locked">>]
    ELSE [db |-> Commit(d),
          flush |-> [fl EXCEPT ![f] = [@ EXCEPT !.st = "committed",
                                                !.applies = @ + 1,
                                                !.attempts = @ + 1]],
          notes |-> <<>>]

\* A FlushCommand applied by the user.
FlushCommand ==
    /\ err = "none"
    /\ nflush < MaxFlush
    /\ LET r == FlushCommand_apply(db, flush, nflush + 1)
       IN /\ db' = r.db
          /\ flush' = r.flush
          /\ nflush' = nflush + 1
          /\ last' = Ran("Flush", [NoArgs EXCEPT !.k = nflush + 1], r.notes)
    /\ UNCHANGED <<toggled, buffers, current_buffer, previous, buf, nbuf, tags, tasks,
                   ntask, screen, err>>

\* The loop fires an alarm set by FlushCommand.apply: f(*args) applies the
\* same FlushCommand again.
AlarmFires(f) ==
    /\ err = "none"
    /\ flush[f].alarms > 0
    /\ LET armed == [flush EXCEPT ![f].alarms = @ - 1]
           r == FlushCommand_apply(db, armed, f)
       IN /\ db' = r.db
          /\ flush' = r.flush
          /\ last' = Ran("Alarm", [NoArgs EXCEPT !.k = f], r.notes)
    /\ UNCHANGED <<toggled, buffers, current_buffer, previous, buf, nbuf, tags, nflush,
                   tasks, ntask, screen, err>>

\* ------------------------------------------------------------ registry commands
\* A handler ended by an exception: the state it had reached, and the loop is gone.
Raise(e) == err' = e

\* The loop of SearchCommand.apply over the open Search buffers: the last one
\* whose querystring is the query, NoBuf for None.
to_be_focused(open_searches, B, q) ==
    LET hit(b) == B[b].querystring = q
        hits == FilterSeq(open_searches, hit)
    IN IF hits = <<>> THEN NoBuf ELSE hits[Len(hits)]

\* SearchCommand.apply without its force_new branch.
SearchCommand_opens_ignoring_force(q, force_new) ==
    to_be_focused(get_buffers_of_type(buffers, buf, "search"), buf, q) = NoBuf

\* Whether SearchCommand.apply opens a new buffer.
SearchCommand_opens(q, force_new) ==
    force_new \/ to_be_focused(get_buffers_of_type(buffers, buf, "search"), buf, q) = NoBuf

SearchCommand(q, force_new) ==
    /\ err = "none"
    /\ SearchCommand_opens(q, force_new) => nbuf < MaxBufs
    /\ LET found == to_be_focused(get_buffers_of_type(buffers, buf, "search"), buf, q)
           opens == SearchCommand_opens(q, force_new)
           u == IF opens THEN buffer_open(U, nbuf + 1) ELSE buffer_focus(U, found)
       IN /\ buffers' = u.buffers
          /\ current_buffer' = u.cur
          /\ previous' = u.prev
          /\ buf' = IF opens THEN [buf EXCEPT ![nbuf + 1] = SearchBuffer(db.index, q)]
                    ELSE buf
          /\ nbuf' = IF opens THEN nbuf + 1 ELSE nbuf
    /\ last' = Ran("Search", [NoArgs EXCEPT !.q = q, !.force = force_new], <<>>)
    /\ UNCHANGED <<toggled, tags, db, flush, nflush, tasks, ntask, screen, err>>

\* OpenThreadCommand(thread=t), t = NoThread for the selected thread.
OpenThreadCommand(tparam) ==
    /\ err = "none"
    /\ nbuf < MaxBufs
    /\ tparam = NoThread => HasSelection
    /\ LET t == IF tparam = NoThread THEN get_selected_thread(buf[current_buffer])
                ELSE tparam
           u == buffer_open(U, nbuf + 1)
           unread == "unread" \in tags[t]
           queued == QueueWrite(db, t, {}, {"unread"})
           r == FlushCommand_apply(queued, flush, nflush + 1)
       IN /\ (unread /\ ~db.ro) => nflush < MaxFlush
          /\ buffers' = u.buffers
          /\ current_buffer' = u.cur
          /\ previous' = u.prev
          /\ buf' = [buf EXCEPT ![nbuf + 1] = SingleThreadBuffer(t)]
          /\ nbuf' = nbuf + 1
          /\ IF ~unread
             THEN /\ tags' = [tags EXCEPT ![t] = db.index[t]]
                  /\ last' = Ran("OpenThread", [NoArgs EXCEPT !.t = t], <<>>)
                  /\ UNCHANGED <<db, flush, nflush, err>>
             ELSE IF db.ro
             THEN /\ Raise("DatabaseROError")
                  /\ last' = Ran("OpenThread", [NoArgs EXCEPT !.t = t], <<>>)
                  /\ UNCHANGED <<tags, db, flush, nflush>>
             ELSE /\ db' = r.db
                  /\ flush' = r.flush
                  /\ nflush' = nflush + 1
                  /\ tags' = [tags EXCEPT ![t] = r.db.index[t]]
                  /\ last' = Ran("OpenThread", [NoArgs EXCEPT !.t = t], r.notes)
                  /\ UNCHANGED err
    /\ toggled' = NoToggle
    /\ UNCHANGED <<tasks, ntask, screen>>

\* A command that only opens a buffer of its own.
OpensBuffer(op, b) ==
    /\ err = "none"
    /\ nbuf < MaxBufs
    /\ LET u == buffer_open(U, nbuf + 1)
       IN /\ buffers' = u.buffers
          /\ current_buffer' = u.cur
          /\ previous' = u.prev
    /\ buf' = [buf EXCEPT ![nbuf + 1] = b]
    /\ nbuf' = nbuf + 1
    /\ last' = Ran(op, NoArgs, <<>>)
    /\ UNCHANGED <<toggled, tags, db, flush, nflush, tasks, ntask, screen, err>>

OpenEnvelopeCommand == OpensBuffer("OpenEnvelope", EnvelopeBuffer)

\* TagListCommand.apply: appends to ui.buffers itself, then focuses.
TagListCommand ==
    /\ err = "none"
    /\ nbuf < MaxBufs
    /\ LET u == buffer_focus([U EXCEPT !.buffers = Append(@, nbuf + 1)], nbuf + 1)
       IN /\ buffers' = u.buffers
          /\ current_buffer' = u.cur
          /\ previous' = u.prev
    /\ buf' = [buf EXCEPT ![nbuf + 1] = TagListBuffer]
    /\ nbuf' = nbuf + 1
    /\ last' = Ran("TagList", NoArgs, <<>>)
    /\ UNCHANGED <<toggled, tags, db, flush, nflush, tasks, ntask, screen, err>>

OpenBufferListCommand ==
    /\ err = "none"
    /\ LET blists == get_buffers_of_type(buffers, buf, "bufferlist")
           opens == blists = <<>>
           u == IF opens THEN buffer_open(U, nbuf + 1) ELSE buffer_focus(U, blists[1])
       IN /\ opens => nbuf < MaxBufs
          /\ buffers' = u.buffers
          /\ current_buffer' = u.cur
          /\ previous' = u.prev
          /\ buf' = IF opens THEN [buf EXCEPT ![nbuf + 1] = BufferListBuffer] ELSE buf
          /\ nbuf' = IF opens THEN nbuf + 1 ELSE nbuf
    /\ last' = Ran("OpenBufferList", NoArgs, <<>>)
    /\ UNCHANGED <<toggled, tags, db, flush, nflush, tasks, ntask, screen, err>>

\* The registry after BufferCloseCommand.apply: buffer_close, then
\* buffer_focus of whatever is current.
BufferCloseCommand_apply(u, b) ==
    LET closed == buffer_close(u, IF b = NoBuf THEN u.cur ELSE b)
    IN buffer_focus(closed, closed.cur)

\* A closed buffer is reachable from nowhere but by identity: its view state is
\* never read again, and is dropped.
Dropped(B, bufs) == [b \in BufIds |-> IF InSeq(b, bufs) THEN B[b] ELSE FreeBuffer]

\* BufferCloseCommand(buffer=b), b = NoBuf for the current buffer; a buffer
\* list's selected buffer (focussed=True) is any open buffer.
BufferCloseCommand(b) ==
    /\ err = "none"
    /\ b = NoBuf \/ InSeq(b, buffers)
    /\ LET u == BufferCloseCommand_apply(U, b)
       IN /\ buffers' = u.buffers
          /\ current_buffer' = u.cur
          /\ previous' = u.prev
          /\ buf' = Dropped(buf, u.buffers)
    /\ last' = Ran("BufferClose", [NoArgs EXCEPT !.b = b], <<>>)
    /\ UNCHANGED <<toggled, nbuf, tags, db, flush, nflush, tasks, ntask, screen, err>>

\* An index that steps to the next buffer whatever the offset.
focus_index_next(idx, offset, num) == (idx + 1) % num

\* The index BufferFocusCommand.apply computes for a non-zero offset.
focus_index(idx, offset, num) == (idx + offset) % num

\* The exception BufferFocusCommand.apply ends with, "none" when it returns:
\* list.index raises when the current buffer is not in the list; with offset 0
\* and no buffer given, only a buffer list has get_selected_buffer.
BufferFocusCommand_raises(u, B, b, offset) ==
    IF offset # 0
    THEN IF InSeq(u.cur, u.buffers) THEN "none" ELSE "ValueError"
    ELSE IF b # NoBuf THEN "none"
    ELSE IF u.cur # NoBuf /\ B[u.cur].type = "bufferlist" THEN "none"
    ELSE "AttributeError"

\* BufferFocusCommand(buffer=b, offset=k); sel is the buffer selected in the
\* buffer list, read only when neither an offset nor a buffer is given.
BufferFocusCommand(b, offset, sel) ==
    /\ err = "none"
    /\ b = NoBuf \/ (offset = 0 /\ InSeq(b, buffers))
    /\ (b # NoBuf \/ offset # 0) => sel = NoBuf
    /\ LET e == BufferFocusCommand_raises(U, buf, b, offset)
           target == IF offset # 0
                     THEN buffers[focus_index(IndexOf(current_buffer, buffers),
                                              offset, Len(buffers)) + 1]
                     ELSE IF b # NoBuf THEN b ELSE sel
           u == IF e = "none" THEN buffer_focus(U, target) ELSE U
       IN /\ (e = "none" /\ offset = 0 /\ b = NoBuf) => InSeq(sel, buffers)
          /\ (e # "none") => sel = NoBuf
          /\ buffers' = u.buffers
          /\ current_buffer' = u.cur
          /\ previous' = u.prev
          /\ err' = e
    /\ last' = Ran("BufferFocus", [NoArgs EXCEPT !.b = b, !.k = offset], <<>>)
    /\ UNCHANGED <<toggled, buf, nbuf, tags, db, flush, nflush, tasks, ntask, screen>>

\* The user moves the selection of the current Search buffer to row i.
MoveSelection(i) ==
    /\ err = "none"
    /\ current_buffer # NoBuf
    /\ buf[current_buffer].type = "search"
    /\ i \in 1..Len(buf[current_buffer].threadlist)
    /\ i # buf[current_buffer].sel
    /\ buf' = [buf EXCEPT ![current_buffer].sel = i]
    /\ last' = Ran("MoveSelection", NoArgs, <<>>)
    /\ UNCHANGED <<toggled, buffers, current_buffer, previous, nbuf, tags, db, flush,
                   nflush, tasks, ntask, screen, err>>

\* ------------------------------------------------------------ tag commands
\* The tag set with the tag added whether or not it is there.
toggle_tag_adding(S, g) == S \cup {g}

\* ToggleThreadTagCommand.apply: remove the tag if the thread has it, add it
\* otherwise.
toggle_tag(S, g) == IF g \in S THEN S \ {g} ELSE S \cup {g}

\* A store that lets the mutation through, read-only or not.
mutation_raises_never(d) == FALSE

\* Whether thread.add_tags / remove_tags / set_tags raise DatabaseROError, which
\* both tag commands answer with a notification and a return.
mutation_raises(d) == d.ro

\* A reconciliation that leaves every buffer as it is.
reconcile_nothing(cb, index, t) == cb

\* The view reconciliation of ToggleThreadTagCommand.apply on the current
\* buffer cb for the mutated thread t: in a Search buffer the selected
\* threadline is rebuilt, and removed when "(query) AND thread:t" counts 0, the
\* result count going down by t's messages.
reconcile(cb, index, t) ==
    IF cb.type # "search" THEN cb
    ELSE IF count_thread(index, cb.querystring, t) = 0
    THEN [cb EXCEPT !.threadlist = RemoveAt(cb.sel, @),
                    !.result_count = @ - total_messages(t),
                    !.sel = Min(cb.sel, Len(cb.threadlist) - 1)]
    ELSE cb

\* Whether the current buffer is a Search buffer.
SearchIsCurrent == current_buffer # NoBuf /\ buf[current_buffer].type = "search"

\* ToggleThreadTagCommand(tag=g, thread=t), t = NoThread for the selected
\* thread.  A Search buffer that is current has a selected threadline.
ToggleThreadTagCommand(g, tparam) ==
    /\ err = "none"
    /\ tparam = NoThread => HasSelection
    /\ SearchIsCurrent => HasSelection
    /\ LET t == IF tparam = NoThread THEN get_selected_thread(buf[current_buffer])
                ELSE tparam
           args == [NoArgs EXCEPT !.t = t, !.g = g, !.k = tparam]
           queued == QueueWrite(db, t, toggle_tag(tags[t], g) \ tags[t],
                                tags[t] \ toggle_tag(tags[t], g))
           r == FlushCommand_apply(queued, flush, nflush + 1)
       IN IF mutation_raises(db)
          THEN /\ last' = Ran("Toggle", args, <<"index in read only mode">>)
               /\ UNCHANGED <<tags, db, flush, nflush, buf, toggled>>
          ELSE /\ nflush < MaxFlush
               /\ tags' = [tags EXCEPT ![t] = toggle_tag(@, g)]
               /\ db' = r.db
               /\ flush' = r.flush
               /\ nflush' = nflush + 1
               /\ buf' = IF current_buffer = NoBuf THEN buf
                         ELSE [buf EXCEPT ![current_buffer] = reconcile(@, r.db.index, t)]
               /\ last' = [Ran("Toggle", args, r.notes) EXCEPT !.rebuilt =
                              IF SearchIsCurrent
                              THEN get_selected_thread(buf[current_buffer])
                              ELSE NoThread]
               /\ toggled' = IF toggled.n = 1 /\ toggled.t = t /\ toggled.g = g
                             THEN [toggled EXCEPT !.n = 2]
                             ELSE [n |-> 1, t |-> t, g |-> g, before |-> tags[t]]
    /\ UNCHANGED <<buffers, current_buffer, previous, nbuf, tasks, ntask, screen, err>>

\* RetagCommand(tagsstring): the selected thread gets exactly the tags S.
RetagCommand(S) ==
    /\ err = "none"
    /\ HasSelection
    /\ LET t == get_selected_thread(buf[current_buffer])
           args == [NoArgs EXCEPT !.t = t, !.tagset = S]
           r == FlushCommand_apply(QueueWrite(db, t, S, Tags \ S), flush, nflush + 1)
       IN IF mutation_raises(db)
          THEN /\ last' = Ran("Retag", args, <<"index in read-only mode">>)
               /\ UNCHANGED <<tags, db, flush, nflush, toggled>>
          ELSE /\ nflush < MaxFlush
               /\ tags' = [tags EXCEPT ![t] = S]
               /\ db' = r.db
               /\ flush' = r.flush
               /\ nflush' = nflush + 1
               /\ last' = [Ran("Retag", args, r.notes) EXCEPT !.rebuilt = t]
               /\ toggled' = NoToggle
    /\ UNCHANGED <<buffers, current_buffer, previous, buf, nbuf, tasks, ntask,
                   screen, err>>

\* ------------------------------------------------------------ ExternalCommand
ExitCodes == {0, 1}

\* An ExternalCommand object and what its run has done so far.  kind names the
\* on_success continuation; tmpfile is the temp file of the compose and re-edit
\* workflows; log lists the events of the run in the order they happened.
NoTask ==
    [pc |-> "new", in_thread |-> FALSE, refocus |-> FALSE, on_success |-> FALSE,
     callerbuffer |-> NoBuf, returncode |-> 0, pipe |-> "", ran |-> 0,
     ranBy |-> "none", handled |-> 0, kind |-> "none", tmpfile |-> "none",
     log |-> <<>>]

\* thread_code that writes whatever the exit code.
thread_code_writes_always(returncode) == TRUE

\* thread_code that writes on failure instead of success.
thread_code_writes_inverted(returncode) == returncode # 0

\* thread_code: 'success' goes down the pipe only when the exit code is 0.
thread_code_writes(returncode) == returncode = 0

\* The events of thread_code after subprocess.call has returned.
thread_code_events(returncode) ==
    <<"subprocess.call", "exit">>
        \o (IF thread_code_writes(returncode) THEN <<"os.write">> ELSE <<>>)

\* A synchronous branch that starts the screen again before the subprocess runs.
apply_events_restart_first(in_thread, returncode) ==
    IF in_thread THEN <<"thread.start">>
    ELSE <<"screen.stop", "screen.start">> \o thread_code_events(returncode)

\* The events of the last statement of ExternalCommand.apply: the thread is
\* started, or the screen is stopped, thread_code runs and the screen is started.
apply_events(in_thread, returncode) ==
    IF in_thread THEN <<"thread.start">>
    ELSE <<"screen.stop">> \o thread_code_events(returncode) \o <<"screen.start">>

\* The screen after these events.
screen_after(scr, events) ==
    LET at == {i \in 1..Len(events) : events[i] \in {"screen.stop", "screen.start"}}
        final == CHOOSE i \in at : \A j \in at : j <= i
    IN IF at = {} THEN scr
       ELSE IF events[final] = "screen.start" THEN "started" ELSE "stopped"

\* The ExternalCommand object after apply, issued with the buffer cb current.
ExternalCommand_apply(kind, in_thread, refocus, on_success, returncode, cb, before) ==
    [NoTask EXCEPT !.kind = kind, !.in_thread = in_thread, !.refocus = refocus,
                   !.on_success = on_success, !.callerbuffer = cb,
                   !.pc = IF in_thread THEN "running" ELSE "finished",
                   !.returncode = IF in_thread THEN 0 ELSE returncode,
                   !.pipe = IF ~in_thread /\ thread_code_writes(returncode)
                            THEN "success" ELSE "",
                   !.tmpfile = IF kind \in {"compose", "reedit"} THEN "written" ELSE "none",
                   !.log = before \o apply_events(in_thread, returncode)]

\* ExternalCommand.apply.  With in_thread the worker thread is started and
\* apply returns; without, the screen is stopped, the subprocess runs to its
\* exit code on the loop thread, and the screen is started again.
ExternalCommand(in_thread, refocus, on_success, returncode) ==
    /\ err = "none"
    /\ ntask < MaxTasks
    /\ in_thread => returncode = 0
    /\ LET issued == ExternalCommand_apply(IF on_success THEN "plain" ELSE "none",
                                           in_thread, refocus, on_success, returncode,
                                           current_buffer, <<>>)
       IN /\ tasks' = [tasks EXCEPT ![ntask + 1] = issued]
          /\ screen' = screen_after(screen, issued.log)
    /\ ntask' = ntask + 1
    /\ last' = Ran("External", NoArgs, <<>>)
    /\ UNCHANGED <<toggled, buffers, current_buffer, previous, buf, nbuf, tags, db,
                   flush, nflush, err>>

\* On the worker thread, subprocess.call returns the exit code.
WorkerExits(x, returncode) ==
    /\ tasks[x].pc = "running"
    /\ tasks' = [tasks EXCEPT ![x].pc = "exited", ![x].returncode = returncode,
                              ![x].log = @ \o <<"subprocess.call", "exit">>]
    /\ last' = Ran("WorkerExits", NoArgs, <<>>)
    /\ UNCHANGED <<toggled, buffers, current_buffer, previous, buf, nbuf, tags, db,
                   flush, nflush, ntask, screen, err>>

\* On the worker thread, the rest of thread_code: the write, and the thread ends.
WorkerWrites(x) ==
    /\ tasks[x].pc = "exited"
    /\ tasks' = [tasks EXCEPT ![x].pc = "finished",
                              ![x].pipe = IF thread_code_writes(tasks[x].returncode)
                                          THEN "success" ELSE "",
                              ![x].log = IF thread_code_writes(tasks[x].returncode)
                                         THEN @ \o <<"os.write">> ELSE @]
    /\ last' = Ran("WorkerWrites", NoArgs, <<>>)
    /\ UNCHANGED <<toggled, buffers, current_buffer, previous, buf, nbuf, tags, db,
                   flush, nflush, ntask, screen, err>>

\* A continuation of ComposeCommand that opens the envelope before it deletes
\* the temp file.
on_success_events_open_first(kind) ==
    IF kind = "compose" THEN <<"read", "OpenEnvelopeCommand", "unlink">>
    ELSE IF kind = "reedit" THEN <<"read", "unlink", "set_email">>
    ELSE <<"on_success">>

\* The events of the on_success continuation: openEnvelopeFromTmpfile of
\* ComposeCommand, readTmpfile of EnvelopeReeditCommand, or a callable of
\* which nothing is known.
on_success_events(kind) ==
    IF kind = "compose" THEN <<"read", "unlink", "OpenEnvelopeCommand">>
    ELSE IF kind = "reedit" THEN <<"read", "unlink", "set_email">>
    ELSE <<"on_success">>

\* The buffer readTmpfile writes: ui.current_buffer, read when it runs.
set_email_target(cur, callerbuffer) == cur

\* A completion handler that never refocuses.
afterwards_refocuses_never(refocus, callerbuffer, bufs) == FALSE

\* The test of the refocus in afterwards: asked for, and the caller's buffer is
\* in ui.buffers.
afterwards_refocuses(refocus, callerbuffer, bufs) == refocus /\ InSeq(callerbuffer, bufs)

\* afterwards(data) for the command x: the session, the buffers, the exception
\* and the command object it leaves.  on_success runs when it is callable and
\* the data is 'success'; then the refocus, when the caller's buffer is still
\* open.  An exception of on_success ends afterwards.
afterwards(x, data) ==
    LET t == tasks[x]
        runs == t.on_success /\ data = "success"
        target == set_email_target(current_buffer, t.callerbuffer)
        writes == runs /\ t.kind = "reedit"
        opens == runs /\ t.kind = "compose"
        e == IF writes /\ (target = NoBuf \/ buf[target].type # "envelope")
             THEN "AttributeError" ELSE "none"
        u1 == IF opens THEN buffer_open(U, nbuf + 1) ELSE U
        refocuses == e = "none" /\ afterwards_refocuses(t.refocus, t.callerbuffer, u1.buffers)
    IN [u |-> IF refocuses THEN buffer_focus(u1, t.callerbuffer) ELSE u1,
        buf |-> IF opens THEN [buf EXCEPT ![nbuf + 1] = [EnvelopeBuffer EXCEPT !.email = x]]
                ELSE IF writes /\ e = "none" THEN [buf EXCEPT ![target].email = x]
                ELSE buf,
        nbuf |-> IF opens THEN nbuf + 1 ELSE nbuf,
        err |-> e,
        task |-> [t EXCEPT !.pipe = "",
                           !.handled = @ + 1,
                           !.ran = IF runs THEN @ + 1 ELSE @,
                           !.ranBy = IF runs THEN "loop" ELSE @,
                           !.tmpfile = IF writes \/ opens THEN "deleted" ELSE @,
                           !.log = @ \o <<"afterwards">>
                                     \o (IF runs THEN on_success_events(t.kind) ELSE <<>>)
                                     \o (IF refocuses THEN <<"buffer_focus">> ELSE <<>>)]]

\* The loop finds data in the watched pipe and calls afterwards(data).
PipeReadable(x) ==
    /\ err = "none"
    /\ tasks[x].pipe # ""
    /\ tasks[x].kind = "compose" => nbuf < MaxBufs
    /\ LET r == afterwards(x, tasks[x].pipe)
       IN /\ tasks' = [tasks EXCEPT ![x] = r.task]
          /\ buffers' = r.u.buffers
          /\ current_buffer' = r.u.cur
          /\ previous' = r.u.prev
          /\ buf' = r.buf
          /\ nbuf' = r.nbuf
          /\ err' = r.err
    /\ last' = Ran("PipeReadable", NoArgs, <<>>)
    /\ UNCHANGED <<toggled, tags, db, flush, nflush, ntask, screen>>

\* ------------------------------------------------------------ compose and re-edit
\* What the user does with a prompt: From> is answered with the address of an
\* account or cancelled; To> is not shown (the header is given), answered or
\* cancelled; Subject> is not shown (not asked for, or given), answered or
\* cancelled.
FromAnswers == {"address", "cancel"}
ToAnswers == {"header", "address", "cancel"}
SubjectAnswers == {"skip", "text", "cancel"}

\* Whether ComposeCommand.apply returns before the To header: no account, or
\* several accounts and the From prompt cancelled.
ComposeCommand_returns(naccounts, fromaddress) ==
    naccounts = 0 \/ (naccounts > 1 /\ fromaddress = "cancel")

\* The temp file of the workflows, written and closed.
tmpfile_events == <<"tempfile", "tf.write", "tf.close">>

\* ComposeCommand(mail, headers).apply with naccounts accounts configured, the
\* From prompt answered wrongly tries times before fromaddress, and the editor
\* spawned or not.  With a mail given, the loop over self.headers unpacks the
\* key 'From' into two names and raises ValueError, the temp file created.
ComposeCommand(naccounts, tries, fromaddress, to, subject, mail, spawn, returncode) ==
    /\ err = "none"
    /\ naccounts <= 1 => (tries = 0 /\ fromaddress = "address")
    /\ (ComposeCommand_returns(naccounts, fromaddress) \/ mail \/ spawn) => returncode = 0
    /\ ComposeCommand_returns(naccounts, fromaddress)
          => (to = "header" /\ subject = "skip" /\ ~mail /\ ~spawn)
    /\ mail => ~spawn
    /\ LET returns == ComposeCommand_returns(naccounts, fromaddress)
           notes == (IF naccounts = 0 THEN <<"no accounts set">> ELSE <<>>)
                      \o [i \in 1..tries |-> "couldn't find a matching account"]
                      \o (IF naccounts > 1 /\ fromaddress = "cancel"
                          THEN <<"canceled">> ELSE <<>>)
           cancelled == (IF naccounts > 1 /\ fromaddress = "cancel" THEN {"From"} ELSE {})
                          \cup (IF to = "cancel" THEN {"To"} ELSE {})
                          \cup (IF subject = "cancel" THEN {"Subject"} ELSE {})
           args == [NoArgs EXCEPT !.k = naccounts, !.cancelled = cancelled]
           issued == ExternalCommand_apply("compose", spawn, FALSE, TRUE, returncode,
                                           current_buffer, tmpfile_events)
       IN /\ last' = Ran("Compose", args, notes)
          /\ IF returns
             THEN UNCHANGED <<tasks, ntask, screen, err>>
             ELSE /\ ntask < MaxTasks
                  /\ ntask' = ntask + 1
                  /\ IF mail
                     THEN /\ tasks' = [tasks EXCEPT ![ntask + 1] =
                                         [NoTask EXCEPT !.kind = "compose", !.pc = "raised",
                                                        !.tmpfile = "created",
                                                        !.log = <<"tempfile">>]]
                          /\ Raise("ValueError")
                          /\ UNCHANGED screen
                     ELSE /\ tasks' = [tasks EXCEPT ![ntask + 1] = issued]
                          /\ screen' = screen_after(screen, issued.log)
                          /\ UNCHANGED err
    /\ UNCHANGED <<toggled, buffers, current_buffer, previous, buf, nbuf, tags, db,
                   flush, nflush>>

\* EnvelopeReeditCommand.apply: the email of the current buffer goes to a temp
\* file and the editor runs on it; get_email is a method of Envelope buffers
\* only.
EnvelopeReeditCommand(spawn, returncode) ==
    /\ err = "none"
    /\ ntask < MaxTasks
    /\ spawn => returncode = 0
    /\ LET issued == ExternalCommand_apply("reedit", spawn, FALSE, TRUE, returncode,
                                           current_buffer, tmpfile_events)
       IN IF current_buffer = NoBuf \/ buf[current_buffer].type # "envelope"
          THEN /\ returncode = 0
               /\ ~spawn
               /\ Raise("AttributeError")
               /\ UNCHANGED <<tasks, ntask, screen>>
          ELSE /\ tasks' = [tasks EXCEPT ![ntask + 1] = issued]
               /\ ntask' = ntask + 1
               /\ screen' = screen_after(screen, issued.log)
               /\ UNCHANGED err
    /\ last' = Ran("EnvelopeReedit", NoArgs, <<>>)
    /\ UNCHANGED <<toggled, buffers, current_buffer, previous, buf, nbuf, tags, db,
                   flush, nflush>>

\* ------------------------------------------------------------ specifications
\* After construction: no buffer is open, the thread handles show the index,
\* nothing is pending.  The store is writable or read-only for the session, and
\* rejects the first lockLeft commit attempts with LockedError.
InitWith(indexes, ros, locks) ==
    /\ buffers = <<>>
    /\ current_buffer = NoBuf
    /\ previous = NoBuf
    /\ buf = [b \in BufIds |-> FreeBuffer]
    /\ nbuf = 0
    /\ \E index \in indexes, ro \in ros, k \in locks :
            db = [index |-> index, pending |-> NoPending, ro |-> ro,
                  lockFirst |-> k, lockLeft |-> k]
    /\ tags = db.index
    /\ flush = [f \in FlushIds |-> NewFlush]
    /\ nflush = 0
    /\ tasks = [x \in TaskIds |-> NoTask]
    /\ ntask = 0
    /\ screen = "started"
    /\ err = "none"
    /\ last = Ran("init", NoArgs, <<>>)
    /\ toggled = NoToggle

AllTagged == [t \in Threads |-> Tags]

Init == InitWith({AllTagged}, BOOLEAN, 0..1)

TimerFires == \E f \in FlushIds : AlarmFires(f)

Next ==
    \/ \E q \in Queries, force_new \in BOOLEAN : SearchCommand(q, force_new)
    \/ \E t \in Threads \cup {NoThread} : OpenThreadCommand(t)
    \/ OpenEnvelopeCommand
    \/ OpenBufferListCommand
    \/ TagListCommand
    \/ \E b \in BufIds \cup {NoBuf} : BufferCloseCommand(b)
    \/ \E k \in Offsets \ {0} : BufferFocusCommand(NoBuf, k, NoBuf)
    \/ \E b \in BufIds \cup {NoBuf}, sel \in BufIds \cup {NoBuf} :
            BufferFocusCommand(b, 0, sel)
    \/ TimerFires

Spec == Init /\ [][Next]_vars

\* An index whose threads all carry the same tags, whatever these are.
UniformIndexes == {[t \in Threads |-> S] : S \in SUBSET Tags}

\* The tag commands on a writable store that rejects no commit or the first one.
InitTags == InitWith(UniformIndexes, {FALSE}, 0..1)

NextTags ==
    \/ SearchCommand("tag:inbox", FALSE)
    \/ OpenEnvelopeCommand
    \/ \E i \in 1..MaxThreads : MoveSelection(i)
    \/ \E g \in Tags, t \in Threads \cup {NoThread} : ToggleThreadTagCommand(g, t)
    \/ TimerFires

SpecTags == InitTags /\ [][NextTags]_vars

\* The tag commands on a read-only store.
InitReadOnly == InitWith(UniformIndexes, {TRUE}, 0..1)

NextReadOnly ==
    \/ \E q \in Queries, force_new \in BOOLEAN : SearchCommand(q, force_new)
    \/ \E i \in 1..MaxThreads : MoveSelection(i)
    \/ \E g \in Tags, t \in Threads \cup {NoThread} : ToggleThreadTagCommand(g, t)
    \/ \E S \in SUBSET Tags : RetagCommand(S)

SpecReadOnly == InitReadOnly /\ [][NextReadOnly]_vars

\* One FlushCommand applied by the user on a store that rejects the first
\* lockFirst commits, while buffers are opened; the loop fires every alarm.
InitFlush == InitWith({AllTagged}, {FALSE}, 0..MaxLocked)

FirstFlush == nflush = 0 /\ FlushCommand

NextFlush ==
    \/ FirstFlush
    \/ TimerFires
    \/ \E q \in Queries, force_new \in BOOLEAN : SearchCommand(q, force_new)
    \/ OpenEnvelopeCommand
    \/ OpenBufferListCommand
    \/ TagListCommand

SpecFlush == InitFlush /\ [][NextFlush]_vars /\ WF_vars(TimerFires)

\* External commands among commands that open and close buffers, none of which
\* raises; the worker thread runs on, and the loop reads every pipe that holds
\* data.
InitExternal == InitWith({AllTagged}, {FALSE}, {0})

NextExternal ==
    \/ \E in_thread \in BOOLEAN, on_success \in BOOLEAN, returncode \in ExitCodes :
            \* refocus keeps the default of ExternalCommand.__init__
            ExternalCommand(in_thread, TRUE, on_success, returncode)
    \/ \E x \in TaskIds, returncode \in ExitCodes : WorkerExits(x, returncode)
    \/ \E x \in TaskIds : WorkerWrites(x)
    \/ \E x \in TaskIds : PipeReadable(x)
    \/ OpenEnvelopeCommand
    \/ BufferCloseCommand(NoBuf)

SpecExternal ==
    /\ InitExternal
    /\ [][NextExternal]_vars
    /\ \A x \in TaskIds : WF_vars(WorkerWrites(x)) /\ WF_vars(PipeReadable(x))

\* External commands that refocus, among commands that open, close and focus
\* buffers, none of which raises.
NextRefocus ==
    \/ \E in_thread \in BOOLEAN, on_success \in BOOLEAN, returncode \in ExitCodes :
            ExternalCommand(in_thread, TRUE, on_success, returncode)
    \/ \E x \in TaskIds, returncode \in ExitCodes : WorkerExits(x, returncode)
    \/ \E x \in TaskIds : WorkerWrites(x)
    \/ \E x \in TaskIds : PipeReadable(x)
    \/ OpenEnvelopeCommand
    \/ \E b \in BufIds \cup {NoBuf} : BufferCloseCommand(b)
    \/ \E b \in BufIds : BufferFocusCommand(b, 0, NoBuf)

SpecRefocus == InitExternal /\ [][NextRefocus]_vars

\* The compose and re-edit workflows among commands that open, close and focus
\* buffers.
MaxAccounts == 2

NextCompose ==
    \/ \E naccounts \in 0..MaxAccounts :
         \E tries \in (IF naccounts <= 1 THEN {0} ELSE 0..1),
            fromaddress \in (IF naccounts <= 1 THEN {"address"} ELSE FromAnswers) :
           \E to \in (IF ComposeCommand_returns(naccounts, fromaddress)
                       THEN {"header"} ELSE ToAnswers),
              subject \in (IF ComposeCommand_returns(naccounts, fromaddress)
                            THEN {"skip"} ELSE SubjectAnswers),
              mail \in (IF ComposeCommand_returns(naccounts, fromaddress)
                         THEN {FALSE} ELSE BOOLEAN) :
             \E spawn \in (IF mail \/ ComposeCommand_returns(naccounts, fromaddress)
                             THEN {FALSE} ELSE BOOLEAN) :
               \E returncode \in (IF mail \/ spawn
                                       \/ ComposeCommand_returns(naccounts, fromaddress)
                                    THEN {0} ELSE ExitCodes) :
                 ComposeCommand(naccounts, tries, fromaddress, to, subject, mail, spawn,
                                returncode)
    \/ \E spawn \in BOOLEAN, returncode \in ExitCodes :
            EnvelopeReeditCommand(spawn, returncode)
    \/ \E x \in TaskIds, returncode \in ExitCodes : WorkerExits(x, returncode)
    \/ \E x \in TaskIds : WorkerWrites(x)
    \/ \E x \in TaskIds : PipeReadable(x)
    \/ OpenEnvelopeCommand
    \/ \E b \in BufIds \cup {NoBuf} : BufferCloseCommand(b)
    \/ \E b \in BufIds : BufferFocusCommand(b, 0, NoBuf)

SpecCompose == InitExternal /\ [][NextCompose]_vars

\* The compose workflow alone, with an account found at the first From prompt:
\* composing, the workers and the loop, and envelopes opened and closed
\* meanwhile.
NextRoundTrip ==
    \/ \E naccounts \in 0..MaxAccounts :
         \E fromaddress \in (IF naccounts <= 1 THEN {"address"} ELSE FromAnswers) :
           \E to \in (IF ComposeCommand_returns(naccounts, fromaddress)
                       THEN {"header"} ELSE ToAnswers),
              subject \in (IF ComposeCommand_returns(naccounts, fromaddress)
                            THEN {"skip"} ELSE SubjectAnswers),
              mail \in (IF ComposeCommand_returns(naccounts, fromaddress)
                         THEN {FALSE} ELSE BOOLEAN) :
             \E spawn \in (IF mail \/ ComposeCommand_returns(naccounts, fromaddress)
                             THEN {FALSE} ELSE BOOLEAN) :
               \E returncode \in (IF mail \/ spawn
                                       \/ ComposeCommand_returns(naccounts, fromaddress)
                                    THEN {0} ELSE ExitCodes) :
                 ComposeCommand(naccounts, 0, fromaddress, to, subject, mail, spawn,
                                returncode)
    \/ \E x \in TaskIds, returncode \in ExitCodes : WorkerExits(x, returncode)
    \/ \E x \in TaskIds : WorkerWrites(x)
    \/ \E x \in TaskIds : PipeReadable(x)
    \/ OpenEnvelopeCommand
    \/ BufferCloseCommand(NoBuf)

SpecRoundTrip == InitExternal /\ [][NextRoundTrip]_vars

\* ------------------------------------------------------------ claims: registry
\* The open buffers with this querystring that are Search buffers.
SearchesFor(q) ==
    {b \in BufIds : InSeq(b, buffers) /\ buf[b].type = "search" /\ buf[b].querystring = q}

\* Whenever a buffer is open, the current buffer is one of the open buffers.
FocusIsLive == buffers # <<>> => InSeq(current_buffer, buffers)

\* C1: after any sequence of buffer-opening commands, BufferCloseCommand and
\* BufferFocusCommand(offset=k), the current buffer is an open buffer whenever
\* one is open; and on an empty buffer list BufferFocusCommand(offset=k) changes
\* nothing and raises no error.
C1_FocusAlwaysLive ==
    /\ FocusIsLive
    /\ (last.op = "BufferFocus" /\ last.args.k # 0 /\ buffers = <<>>)
          => (err = "none" /\ current_buffer = NoBuf)

\* The buffer that offset k designates from the current one: (i + k) mod N.
ByOffset(k) ==
    buffers[((IndexOf(current_buffer, buffers) + k) % Len(buffers)) + 1]

\* C2 as claimed: with N >= 1 buffers and the current one at index i,
\* BufferFocusCommand(offset=k) makes the buffer at (i + k) mod N current and
\* leaves the list unchanged, for every integer k, zero included.
C2_AnyOffset ==
    [][(last'.op = "BufferFocus" /\ last'.args.b = NoBuf
            /\ InSeq(current_buffer, buffers))
        => (/\ err' = "none"
            /\ buffers' = buffers
            /\ current_buffer' = ByOffset(last'.args.k))]_vars

\* C2 as amended: for every non-zero k, BufferFocusCommand(offset=k) makes the
\* buffer at (i + k) mod N current, leaves the list unchanged and raises
\* nothing; a non-zero multiple of N leaves the focus where it is, any other k
\* designates the buffer that offset k mod N designates, and with N = 1 the
\* focus never moves.
C2_NonZeroOffset ==
    [][(last'.op = "BufferFocus" /\ last'.args.k # 0
            /\ InSeq(current_buffer, buffers))
        => LET k == last'.args.k
               N == Len(buffers)
           IN /\ err' = "none"
              /\ buffers' = buffers
              /\ current_buffer' = ByOffset(k)
              /\ k % N = 0 => current_buffer' = current_buffer
              /\ k % N # 0 =>
                    current_buffer' =
                        buffers[focus_index(IndexOf(current_buffer, buffers),
                                            k % N, N) + 1]
              /\ N = 1 => current_buffer' = current_buffer]_vars

\* An offset below -N moved the focus in a list of two buffers.
C2_Witness ==
    /\ last.op = "BufferFocus"
    /\ last.args.k = 0 - 3
    /\ Len(buffers) = 2
    /\ current_buffer = buffers[1]
    /\ err = "none"

\* C3: SearchCommand(q, force_new=False) with a Search buffer for q open makes
\* one of those buffers current and opens nothing; with none open, or with
\* force_new=True, it opens exactly one new Search buffer for q, which becomes
\* current.
C3_SearchReuse ==
    [][last'.op = "Search"
        => LET q == last'.args.q
           IN IF ~last'.args.force /\ SearchesFor(q) # {}
              THEN /\ current_buffer' \in SearchesFor(q)
                   /\ buffers' = buffers
                   /\ nbuf' = nbuf
              ELSE /\ nbuf' = nbuf + 1
                   /\ buffers' = Append(buffers, nbuf')
                   /\ ~InSeq(nbuf', buffers)
                   /\ buf'[nbuf'].type = "search"
                   /\ buf'[nbuf'].querystring = q
                   /\ current_buffer' = nbuf']_vars

\* SearchCommand(q, force_new=True) opened a second Search buffer for q.
C3_Witness ==
    /\ last.op = "Search"
    /\ last.args.force
    /\ Len(buffers) = 2
    /\ Cardinality(SearchesFor(last.args.q)) = 2
    /\ current_buffer = buffers[2]

\* ------------------------------------------------------------ claims: tags
\* C5: when the store raises ReadOnlyError on the tag mutation of
\* ToggleThreadTagCommand or RetagCommand, the thread's tags are unchanged (in
\* the handle, in the index and among the pending writes), exactly one
\* notification is issued, no FlushCommand is applied (no commit attempt, no
\* alarm) and no row is rebuilt or removed.
C5_ReadOnlyAborts ==
    [][(last'.op \in {"Toggle", "Retag"} /\ db.ro)
        => (/\ tags' = tags
            /\ db' = db
            /\ Len(last'.notes) = 1
            /\ flush' = flush
            /\ nflush' = nflush
            /\ last'.rebuilt = NoThread
            /\ buf' = buf
            /\ err' = "none")]_vars

\* A toggle on a read-only store, with a Search buffer showing the thread.
C5_Witness ==
    /\ last.op = "Toggle"
    /\ db.ro
    /\ last.notes = <<"index in read only mode">>
    /\ SearchIsCurrent
    /\ InSeq(last.args.t, buf[current_buffer].threadlist)

\* C6: on a writable store, ToggleThreadTagCommand(tag, thread=T) applied twice
\* leaves T's tag set as it was before the first application.
C6_ToggleTwice == toggled.n = 2 => tags[toggled.t] = toggled.before

\* Two toggles of a tag the thread did not carry, the first one's commit
\* rejected.
C6_Witness ==
    /\ toggled.n = 2
    /\ toggled.g \notin toggled.before
    /\ db.lockFirst = 1
    /\ last.op = "Toggle"

\* C7 as claimed: ToggleThreadTagCommand on a thread T that has a row in the
\* current Search buffer, the store writable, removes T's row and takes T's
\* message count off result_count when "(Q) AND thread:T" counts 0, and leaves
\* thread list and result_count alone otherwise.
C7_RowOfToggledThread ==
    [][(last'.op = "Toggle" /\ ~db.ro /\ SearchIsCurrent
            /\ InSeq(last'.args.t, buf[current_buffer].threadlist))
        => LET t == last'.args.t
               cb == buf[current_buffer]
               other(x) == x # t
           IN IF count_thread(db'.index, cb.querystring, t) = 0
              THEN /\ buf'[current_buffer].threadlist = FilterSeq(cb.threadlist, other)
                   /\ buf'[current_buffer].result_count
                          = cb.result_count - total_messages(t)
              ELSE /\ buf'[current_buffer].threadlist = cb.threadlist
                   /\ buf'[current_buffer].result_count = cb.result_count]_vars

\* The same for the selected thread only, which is what the code does.
RowOfSelectedThread ==
    [][(last'.op = "Toggle" /\ ~db.ro /\ SearchIsCurrent
            /\ last'.args.t = get_selected_thread(buf[current_buffer]))
        => LET t == last'.args.t
               cb == buf[current_buffer]
               other(x) == x # t
           IN IF count_thread(db'.index, cb.querystring, t) = 0
              THEN /\ InSeq(t, cb.threadlist)
                   /\ buf'[current_buffer].threadlist = FilterSeq(cb.threadlist, other)
                   /\ buf'[current_buffer].result_count
                          = cb.result_count - total_messages(t)
              ELSE /\ buf'[current_buffer].threadlist = cb.threadlist
                   /\ buf'[current_buffer].result_count = cb.result_count]_vars

\* ------------------------------------------------------------ claims: flush
\* C4: on a store that rejects exactly the first k commits, with every alarm
\* fired, a single FlushCommand eventually commits, after exactly k + 1 commit
\* attempts and exactly k 'index locked' notifications, and attempts and
\* notifies no more once it has committed.
C4_FlushRetries ==
    /\ [](flush[1].st = "committed"
            => (/\ flush[1].attempts = db.lockFirst + 1
                /\ flush[1].notes = db.lockFirst
                /\ flush[1].alarms = 0))
    /\ [](flush[1].st # "committed"
            => (/\ flush[1].attempts <= db.lockFirst
                /\ flush[1].notes = flush[1].attempts))
    /\ (nflush = 1 ~> flush[1].st = "committed")

\* The flush has committed at its second attempt, after one notification.
C4_Witness ==
    /\ db.lockFirst = 1
    /\ flush[1].st = "committed"
    /\ flush[1].attempts = 2
    /\ flush[1].notes = 1

\* C10 as claimed: apply is invoked at most once on every Command object,
\* FlushCommand with a scheduled retry included.
C10_AppliedOnce == \A f \in FlushIds : flush[f].applies <= 1

\* C10 as amended: apply is invoked on a FlushCommand object once when it is
\* issued and once more by the alarm of each LockedError, never more: k
\* rejected commits make k applications while the retry is pending and k + 1
\* once it has committed, with at most one alarm pending.
C10_FlushReapplied ==
    \A f \in FlushIds :
        /\ flush[f].st = "new" => flush[f].applies = 0
        /\ flush[f].st = "retry"
              => (flush[f].applies = flush[f].locked /\ flush[f].alarms = 1)
        /\ flush[f].st = "committed"
              => (flush[f].applies = flush[f].locked + 1 /\ flush[f].alarms = 0)

\* A FlushCommand issued by a toggle was applied again by its alarm and committed.
C10_Witness ==
    \E f \in FlushIds :
        /\ flush[f].st = "committed"
        /\ flush[f].applies = 2
        /\ flush[f].locked = 1

\* ------------------------------------------------------------ claims: external
\* C8: an asynchronous ExternalCommand with an on_success continuation whose
\* subprocess exits with code 0 has its continuation run exactly once, by the
\* loop and after the exit, whatever else the loop and the worker do in
\* between.
C8_ContinuationOnce ==
    /\ [](\A x \in TaskIds :
            /\ tasks[x].ran <= 1
            /\ tasks[x].ran = 1
                  => (/\ tasks[x].ranBy = "loop"
                      /\ tasks[x].pc = "finished"
                      /\ tasks[x].returncode = 0))
    /\ \A x \in TaskIds :
            (tasks[x].in_thread /\ tasks[x].on_success /\ tasks[x].pc = "exited"
                /\ tasks[x].returncode = 0)
            ~> (tasks[x].ran = 1)

\* The continuation of an asynchronous command has run, the caller's buffer
\* closed in the meantime.
C8_Witness ==
    \E x \in TaskIds :
        /\ tasks[x].in_thread
        /\ tasks[x].on_success
        /\ tasks[x].ran = 1
        /\ tasks[x].ranBy = "loop"
        /\ tasks[x].callerbuffer # NoBuf
        /\ ~InSeq(tasks[x].callerbuffer, buffers)

\* C9: the on_success continuation of an ExternalCommand, synchronous or not,
\* runs only after exit code 0; after a non-zero exit code it never runs and
\* nothing is written for the loop to read, and no handler of the external
\* command issues a notification.
C9_OnlyOnSuccess ==
    /\ \A x \in TaskIds :
          /\ tasks[x].ran >= 1 => tasks[x].returncode = 0
          /\ (tasks[x].pc \in {"exited", "finished"} /\ tasks[x].returncode # 0)
                => (tasks[x].ran = 0 /\ tasks[x].pipe = "" /\ tasks[x].handled = 0)
    /\ last.op \in {"External", "WorkerExits", "WorkerWrites", "PipeReadable"}
          => last.notes = <<>>

\* A synchronous command has failed and the loop has gone on to other commands:
\* the continuation has not run, and there is nothing for the loop to read.
C9_Witness ==
    \E x \in TaskIds :
        /\ ~tasks[x].in_thread
        /\ tasks[x].on_success
        /\ tasks[x].pc = "finished"
        /\ tasks[x].returncode # 0
        /\ tasks[x].ran = 0
        /\ tasks[x].pipe = ""
        /\ last.op = "OpenEnvelope"

\* ------------------------------------------------------------ claims: retry timer
\* C12: for each flush at most one retry timer is pending at any moment; a
\* commit attempt is made only with no timer of that flush pending (the first
\* attempt, or the attempt of the one timer that has just fired); a timer is
\* scheduled only by an attempt that met LockedError; and once a commit has
\* succeeded no timer of that flush is pending and the flush never changes
\* again.
C12_OneTimer ==
    /\ [](\A f \in FlushIds :
            /\ flush[f].alarms <= 1
            /\ flush[f].alarms = 1 <=> flush[f].st = "retry"
            /\ flush[f].st = "committed" => flush[f].alarms = 0)
    /\ [][\A f \in FlushIds :
            /\ flush'[f].attempts # flush[f].attempts
                  => (/\ flush'[f].attempts = flush[f].attempts + 1
                      /\ \/ flush[f].st = "new" /\ flush[f].alarms = 0
                         \/ flush[f].st = "retry" /\ flush[f].alarms = 1
                      /\ flush'[f].alarms = 1 <=> flush'[f].locked = flush[f].locked + 1
                      /\ flush'[f].alarms = 0 <=> flush'[f].st = "committed")
            /\ flush'[f].alarms > flush[f].alarms
                  => (/\ flush'[f].locked = flush[f].locked + 1
                      /\ flush'[f].attempts = flush[f].attempts + 1)
            /\ flush[f].st = "committed" => flush'[f] = flush[f]]_vars

\* A flush committed by the attempt of its retry timer, while a later flush
\* exists.
C12_Witness ==
    /\ flush[1].st = "committed"
    /\ flush[1].locked = 1
    /\ flush[1].attempts = 2
    /\ flush[1].alarms = 0
    /\ nflush = 2

\* ------------------------------------------------------------ claims: store errors
\* C14: no store error leaves apply: when the store raises ReadOnlyError on a
\* tag mutation or LockedError on a commit, OpenThreadCommand,
\* ToggleThreadTagCommand, RetagCommand and FlushCommand return normally, the
\* error turned into a notification or a scheduled retry.
C14_NoStoreErrorEscapes == err \notin {"DatabaseROError", "DatabaseLockedError"}

\* The same for the commands that catch what the store raises: after
\* ToggleThreadTagCommand, RetagCommand, FlushCommand and the retry of a
\* FlushCommand the loop is alive, a rejected commit having left a notification
\* and a pending alarm.
StoreErrorsCaught ==
    /\ last.op \in {"Toggle", "Retag", "Flush", "Alarm"} => err = "none"
    /\ \A f \in FlushIds : flush[f].locked > 0 => flush[f].notes = flush[f].locked

\* ------------------------------------------------------------ claims: reconciled row
\* C17: in the reconciliation of ToggleThreadTagCommand with a Search buffer
\* current, the row rebuilt is the row of the mutated thread, and no row of
\* another thread is removed, whether the thread was taken from the selection
\* or passed explicitly.
C17_RowOfMutatedThread ==
    [][(last'.op = "Toggle" /\ ~db.ro /\ SearchIsCurrent)
        => LET t == last'.args.t
               cb == buf[current_buffer]
           IN /\ last'.rebuilt = t
              /\ \A i \in 1..Len(cb.threadlist) :
                    cb.threadlist[i] # t
                        => InSeq(cb.threadlist[i], buf'[current_buffer].threadlist)]_vars

\* ------------------------------------------------------------ claims: toggle steps
\* C20: ToggleThreadTagCommand.apply on a writable store mutates the tags, then
\* applies one FlushCommand once, then reconciles the current buffer once,
\* against the index as the flush left it: a committed flush has put the
\* mutation into the index and the row goes when the thread no longer matches;
\* a flush that met LockedError has left the index alone, has its retry
\* pending, and the row stays.  The retry that commits later reconciles
\* nothing: it changes no buffer.
C20_ToggleSteps ==
    /\ [][(last'.op = "Toggle" /\ ~db.ro)
            => LET t == last'.args.t
                   g == last'.args.g
                   f == nflush'
                   gone == SearchIsCurrent
                            /\ count_thread(db'.index, buf[current_buffer].querystring, t) = 0
               IN /\ tags'[t] = toggle_tag(tags[t], g)
                  /\ nflush' = nflush + 1
                  /\ flush'[f].applies = 1
                  /\ flush'[f].attempts = 1
                  /\ \A f2 \in FlushIds \ {f} : flush'[f2] = flush[f2]
                  /\ last'.notes = <<>>
                        => (flush'[f].st = "committed" /\ db'.index[t] = tags'[t])
                  /\ last'.notes # <<>>
                        => (/\ last'.notes = <<"index locked">>
                            /\ flush'[f].st = "retry"
                            /\ flush'[f].alarms = 1
                            /\ db'.index = db.index)
                  /\ \A b \in BufIds : b # current_buffer => buf'[b] = buf[b]
                  /\ current_buffer # NoBuf =>
                        /\ Len(buf'[current_buffer].threadlist)
                              = Len(buf[current_buffer].threadlist) - (IF gone THEN 1 ELSE 0)
                        /\ buf'[current_buffer].result_count
                              = buf[current_buffer].result_count
                                  - (IF gone THEN total_messages(t) ELSE 0)]_vars
    /\ [][last'.op = "Alarm"
            => (/\ buf' = buf
                /\ tags' = tags
                /\ nflush' = nflush)]_vars

\* The retry of a toggle's flush has committed the removal of the tag the
\* current Search buffer asks for, and the thread's row is still there.
C20_Witness ==
    /\ last.op = "Alarm"
    /\ SearchIsCurrent
    /\ \E f \in FlushIds : flush[f].st = "committed" /\ flush[f].locked = 1
    /\ \E i \in 1..Len(buf[current_buffer].threadlist) :
          LET t == buf[current_buffer].threadlist[i]
          IN /\ count_thread(db.index, buf[current_buffer].querystring, t) = 0
             /\ toggled.t = t
             /\ toggled.n = 1

\* ------------------------------------------------------------ claims: completion token
\* C15: for every asynchronous ExternalCommand whose subprocess has exited,
\* whatever the exit code, the worker has written its one completion token,
\* which is in the pipe until the loop has run the completion handler, once.
C15_TokenWhateverExit ==
    \A x \in TaskIds :
        /\ tasks[x].handled <= 1
        /\ (tasks[x].in_thread /\ tasks[x].pc = "finished")
              => (tasks[x].pipe # "" \/ tasks[x].handled = 1)

\* The same after exit code 0 only, which is what thread_code does.
TokenAfterSuccess ==
    \A x \in TaskIds :
        /\ tasks[x].handled <= 1
        /\ (tasks[x].pc = "finished" /\ tasks[x].returncode = 0)
              => (tasks[x].pipe # "" \/ tasks[x].handled = 1)

\* ------------------------------------------------------------ claims: synchronous run
\* The positions of an event in a log.
At(log, e) == {i \in 1..Len(log) : log[i] = e}

\* C18: a synchronous ExternalCommand stops the screen, runs the subprocess to
\* its exit and starts the screen again, in this order, whatever the exit code;
\* the screen is stopped once and started once; the loop applies no command
\* while the screen is stopped (it is started whenever the loop is free to act);
\* and afterwards runs only after the screen has been started again.
C18_SynchronousOrder ==
    /\ screen = "started"
    /\ \A x \in TaskIds :
          (tasks[x].pc # "new" /\ ~tasks[x].in_thread)
              => LET log == tasks[x].log
                     first == CHOOSE i \in 1..Len(log) : log[i] = "screen.stop"
                 IN /\ Cardinality(At(log, "screen.stop")) = 1
                    /\ Cardinality(At(log, "screen.start")) = 1
                    /\ Cardinality(At(log, "subprocess.call")) = 1
                    /\ Cardinality(At(log, "exit")) = 1
                    /\ log[first + 1] = "subprocess.call"
                    /\ log[first + 2] = "exit"
                    /\ \A i \in At(log, "screen.start") :
                          /\ i > first + 2
                          /\ \A j \in (first + 1)..(i - 1) :
                                log[j] \in {"subprocess.call", "exit", "os.write"}
                          /\ \A j \in At(log, "afterwards") : j > i
                    /\ tasks[x].handled = Cardinality(At(log, "afterwards"))

\* A synchronous command has exited with code 0 and its completion handler has
\* run the continuation.
C18_Witness ==
    \E x \in TaskIds :
        /\ ~tasks[x].in_thread
        /\ tasks[x].returncode = 0
        /\ tasks[x].ran = 1
        /\ tasks[x].log = <<"screen.stop", "subprocess.call", "exit", "os.write",
                            "screen.start", "afterwards", "on_success">>

\* ------------------------------------------------------------ claims: refocus
\* C13: the completion handler of an ExternalCommand with refocus=True makes
\* the buffer that was current at issue time current when that buffer is still
\* open, and changes neither the focus nor the buffer list and raises nothing
\* when it has been closed, whatever was opened, closed and focused in between.
C13_RefocusIfOpen ==
    /\ [][\A x \in TaskIds :
            (tasks'[x].handled # tasks[x].handled /\ tasks[x].refocus)
                => (/\ err' = "none"
                    /\ buffers' = buffers
                    /\ IF InSeq(tasks[x].callerbuffer, buffers)
                       THEN current_buffer' = tasks[x].callerbuffer
                       ELSE current_buffer' = current_buffer)]_vars
    /\ [](buffers # <<>> => InSeq(current_buffer, buffers))

\* The handler has refocused the caller's buffer, which was not current any
\* more when the handler ran.
C13_Witness ==
    \E x \in TaskIds :
        /\ tasks[x].refocus
        /\ tasks[x].handled = 1
        /\ last.op = "PipeReadable"
        /\ current_buffer = tasks[x].callerbuffer
        /\ previous # NoBuf
        /\ previous # current_buffer
        /\ tasks[x].log[Len(tasks[x].log)] = "buffer_focus"

\* The handler has run after the caller's buffer was closed, another buffer
\* being current.
RefocusOfClosedBuffer ==
    \E x \in TaskIds :
        /\ tasks[x].refocus
        /\ tasks[x].handled = 1
        /\ last.op = "PipeReadable"
        /\ tasks[x].callerbuffer # NoBuf
        /\ ~InSeq(tasks[x].callerbuffer, buffers)
        /\ current_buffer # NoBuf

\* ------------------------------------------------------------ claims: compose
\* C11: when no account is configured, or a prompt of the workflow (From, To
\* or Subject) is cancelled, ComposeCommand.apply creates no temp file, applies
\* no edit command and opens no buffer.
C11_AbortsBeforeTmpfile ==
    [][(last'.op = "Compose" /\ (last'.args.k = 0 \/ last'.args.cancelled # {}))
        => (/\ tasks' = tasks
            /\ ntask' = ntask
            /\ buffers' = buffers
            /\ buf' = buf
            /\ err' = "none")]_vars

\* The same for no account and for the From prompt only, with the notification
\* of the abort.
AbortsOnFrom ==
    [][(last'.op = "Compose" /\ (last'.args.k = 0 \/ "From" \in last'.args.cancelled))
        => (/\ tasks' = tasks
            /\ ntask' = ntask
            /\ buffers' = buffers
            /\ buf' = buf
            /\ err' = "none"
            /\ last'.notes # <<>>
            /\ last'.notes[Len(last'.notes)] \in {"no accounts set", "canceled"})]_vars

\* ------------------------------------------------------------ claims: re-edit
\* C16: when the editor of an EnvelopeReeditCommand has exited with code 0 and
\* the envelope that was current at issue time is still open, the continuation
\* gives that envelope the parsed editor output, writes no other buffer and
\* leaves the buffer list as it is, whatever was focused, opened and closed in
\* between.
C16_ReeditWritesCaller ==
    [][\A x \in TaskIds :
          (tasks[x].kind = "reedit" /\ tasks'[x].handled # tasks[x].handled
              /\ InSeq(tasks[x].callerbuffer, buffers))
            => (/\ err' = "none"
                /\ buffers' = buffers
                /\ buf'[tasks[x].callerbuffer].email = x
                /\ \A b \in BufIds : b # tasks[x].callerbuffer => buf'[b] = buf[b])]_vars

\* The same when the envelope of the re-edit is the current buffer at the time
\* the continuation runs, which is the buffer the code writes.
ReeditWritesCurrent ==
    [][\A x \in TaskIds :
          (tasks[x].kind = "reedit" /\ tasks'[x].handled # tasks[x].handled
              /\ current_buffer = tasks[x].callerbuffer)
            => (/\ err' = "none"
                /\ buffers' = buffers
                /\ current_buffer' = current_buffer
                /\ buf'[tasks[x].callerbuffer].email = x
                /\ tasks'[x].tmpfile = "deleted"
                /\ \A b \in BufIds : b # tasks[x].callerbuffer => buf'[b] = buf[b])]_vars

\* ------------------------------------------------------------ claims: compose round trip
\* C19: once ComposeCommand has written its temp file and applied the edit
\* command, the continuation that runs after exit code 0 reads the temp file,
\* deletes it and then opens exactly one Envelope buffer with the parsed
\* message, which becomes current; after a non-zero exit code the continuation
\* never runs, and no step of the workflow but the continuation touches the
\* buffer list, the buffers or the focus.  No Envelope buffer holds a parsed
\* message whose temp file is not deleted.
C19_ComposeRoundTrip ==
    /\ [][\A x \in TaskIds :
            (tasks[x].kind = "compose" /\ tasks'[x].handled # tasks[x].handled)
              => LET log == tasks'[x].log
                 IN /\ tasks[x].returncode = 0
                    /\ tasks[x].tmpfile = "written"
                    /\ tasks'[x].tmpfile = "deleted"
                    /\ tasks'[x].ran = 1
                    /\ nbuf' = nbuf + 1
                    /\ buffers' = Append(buffers, nbuf')
                    /\ current_buffer' = nbuf'
                    /\ buf'[nbuf'] = [EnvelopeBuffer EXCEPT !.email = x]
                    /\ \A b \in BufIds \ {nbuf'} : buf'[b] = buf[b]
                    /\ err' = "none"
                    /\ Cardinality(At(log, "OpenEnvelopeCommand")) = 1
                    /\ \A i \in At(log, "OpenEnvelopeCommand") :
                          /\ At(log, "unlink") # {}
                          /\ \A j \in At(log, "unlink") : j < i
                          /\ \A j \in At(log, "read") : j < i
                    /\ \A i \in At(log, "unlink") :
                          /\ At(log, "read") # {}
                          /\ \A j \in At(log, "read") : j < i]_vars
    /\ [][\A x \in TaskIds :
            (tasks'[x].kind = "compose" /\ tasks'[x] # tasks[x]
                /\ tasks'[x].handled = tasks[x].handled)
              => (/\ buffers' = buffers
                  /\ current_buffer' = current_buffer
                  /\ buf' = buf)]_vars
    /\ [](\A x \in TaskIds :
            tasks[x].kind = "compose"
              => (/\ tasks[x].ran <= 1
                  /\ (tasks[x].pc \in {"exited", "finished"} /\ tasks[x].returncode # 0)
                        => (/\ tasks[x].ran = 0
                            /\ tasks[x].pipe = ""
                            /\ tasks[x].tmpfile = "written"
                            /\ \A b \in BufIds : buf[b].email # x)
                  /\ \A b \in BufIds : buf[b].email = x => tasks[x].tmpfile = "deleted"))

\* The continuation of a compose with a spawned editor has opened the envelope
\* with the parsed message, next to a buffer that was open before.
C19_Witness ==
    \E x \in TaskIds :
        /\ tasks[x].kind = "compose"
        /\ tasks[x].in_thread
        /\ tasks[x].ran = 1
        /\ tasks[x].tmpfile = "deleted"
        /\ Len(buffers) = 2
        /\ current_buffer = buffers[2]
        /\ buf[current_buffer].type = "envelope"
        /\ buf[current_buffer].email = x
        /\ last.op = "PipeReadable"

\* The editor of a compose has exited with a non-zero code: no envelope, the
\* temp file still there.
ComposeEditorFailed ==
    \E x \in TaskIds :
        /\ tasks[x].kind = "compose"
        /\ tasks[x].pc = "finished"
        /\ tasks[x].returncode # 0
        /\ tasks[x].tmpfile = "written"
        /\ buffers = <<>>

====
